---- MODULE Spec2Model ----
(***************************************************************************)
(* Model of the rule-based contract analysis pipeline:                     *)
(*   modules/nlp_engine.py     LegalNLPEngine                              *)
(*   modules/risk_analyzer.py  RiskAnalyzer                                *)
(* A text is a sequence of characters, each character a one-letter string. *)
(* Offsets are 0-based as in Python: the character at offset p is s[p+1].  *)
(***************************************************************************)
EXTENDS Integers, Sequences, FiniteSets, TLC

\* ------------------------------------------------------------ characters

UpperSeq == <<"A","B","C","D","E","F","G","H","I","J","K","L","M","N","O","P","Q","R","S","T","U","V","W","X","Y","Z">>
LowerSeq == <<"a","b","c","d","e","f","g","h","i","j","k","l","m","n","o","p","q","r","s","t","u","v","w","x","y","z">>
Uppercase == {UpperSeq[i] : i \in 1..Len(UpperSeq)}
Lowercase == {LowerSeq[i] : i \in 1..Len(LowerSeq)}
Digits == {"0","1","2","3","4","5","6","7","8","9"}
\* str.strip() and \s: the whitespace characters of the modelled alphabet
Whitespace == {" ", "\t", "\n", "\r"}

LowerMap == [c \in Uppercase |-> LowerSeq[CHOOSE i \in 1..Len(UpperSeq) : UpperSeq[i] = c]]

\* str.lower() on one character
LowerChar(c) == IF c \in Uppercase THEN LowerMap[c] ELSE c

\* str.lower()
Lower(s) == [i \in 1..Len(s) |-> LowerChar(s[i])]

\* s[a:b] for 0 <= a <= b <= len(s)
Slice(s, a, b) == SubSeq(s, a + 1, b)

\* needle in hay (Python substring test)
Contains(hay, needle) ==
    \E p \in 0..(Len(hay) - Len(needle)) :
        \A j \in 1..Len(needle) : hay[p + j] = needle[j]

\* --------------------------------------------------------- regex engine
\* A pattern is [ci, items]: ci is the (?i) flag, items the sequence of its
\* top-level elements.  Elements:
\*   lit : a literal string (given in lower case when ci)
\*   cls : a character class with a greedy quantifier {min,max}; max = -1 is
\*         unbounded
\*   grp : a group of alternatives, each a sequence of lit/cls elements, with
\*         a greedy quantifier {min,max} and a capture flag
\*   wb  : the word boundary \b

Lit(s) == [k |-> "lit", s |-> s]
Cls(c, min, max) == [k |-> "cls", c |-> c, ch |-> "", min |-> min, max |-> max]
\* the single character ch, optional: x?
Opt(ch) == [k |-> "cls", c |-> "char", ch |-> ch, min |-> 0, max |-> 1]
Grp(alts, min, max, cap) == [k |-> "grp", alts |-> alts, min |-> min, max |-> max, cap |-> cap]
Wb == [k |-> "wb"]
Re(ci, items) == [ci |-> ci, items |-> items]

WordChar(c) == c \in Uppercase \/ c \in Lowercase \/ c \in Digits \/ c = "_"

\* membership of character c in the class of element it
InClass(it, c, ci) ==
    LET name == it.c IN
    CASE name = "space" -> c \in Whitespace
      [] name = "digit" -> c \in Digits
      [] name = "word" -> WordChar(c)
      [] name = "dot" -> c # "\n"
      [] name = "dcomma" -> c \in Digits \/ c = ","
      [] name = "terminator" -> c \in {".", "!", "?"}
      [] name = "slashdash" -> c \in {"/", "-"}
      [] name = "notquote" -> c # "\""
      [] name = "AZ" -> c \in Uppercase \/ (ci /\ c \in Lowercase)
      [] name = "az" -> c \in Lowercase \/ (ci /\ c \in Uppercase)
      [] name = "AB" -> c \in {"A", "B"} \/ (ci /\ c \in {"a", "b"})
      [] name = "partytail" ->
            c \in Uppercase \/ c \in Lowercase \/ c \in Whitespace \/ c \in {"&", ",", "."}
      [] name = "char" -> c = it.ch \/ (ci /\ LowerChar(c) = it.ch)

\* smallest element of a non-empty set of integers
Least(S) == CHOOSE x \in S : \A y \in S : x <= y

\* number of consecutive characters of the class from offset pos, at most max
RunLen(it, s, pos, ci, max) ==
    LET lim == IF max >= 0 /\ max < Len(s) - pos THEN max ELSE Len(s) - pos
        stop == {j \in 1..lim : ~InClass(it, s[pos + j], ci)}
    IN IF stop = {} THEN lim ELSE Least(stop) - 1

\* <<hi, hi-1, ..., lo>>
Downto(hi, lo) == [i \in 1..(hi - lo + 1) |-> hi + 1 - i]

LitAt(lit, s, pos, ci) ==
    /\ pos + Len(lit) <= Len(s)
    /\ \A j \in 1..Len(lit) :
          IF ci THEN LowerChar(s[pos + j]) = lit[j] ELSE s[pos + j] = lit[j]

\* \b at offset pos
BoundaryAt(s, pos) ==
    LET before == pos >= 1 /\ WordChar(s[pos])
        after == pos < Len(s) /\ WordChar(s[pos + 1])
    IN before # after

RECURSIVE ItemEnds(_, _, _, _), SeqEnds(_, _, _, _, _), EndsVia(_, _, _, _, _, _)
RECURSIVE AltEnds(_, _, _, _, _), RepEnds(_, _, _, _, _), RepVia(_, _, _, _, _, _)

\* a quantified class that can take n characters at pos: longest first
ClsEnds(n, pos, min) == IF n >= min THEN Downto(pos + n, pos + min) ELSE <<>>

\* The offsets at which one element can end when it starts at pos, in the
\* order the backtracking matcher tries them (greedy: longest first).
ItemEnds(it, s, pos, ci) ==
    CASE it.k = "lit" -> IF LitAt(it.s, s, pos, ci) THEN <<pos + Len(it.s)>> ELSE <<>>
      [] it.k = "cls" -> ClsEnds(RunLen(it, s, pos, ci, it.max), pos, it.min)
      [] it.k = "wb" -> IF BoundaryAt(s, pos) THEN <<pos>> ELSE <<>>
      [] it.k = "grp" -> RepEnds(it, s, pos, ci, 0)

\* ends of a sequence of elements items[k..] started at pos, in try order
SeqEnds(items, k, s, pos, ci) ==
    IF k > Len(items) THEN <<pos>>
    ELSE EndsVia(ItemEnds(items[k], s, pos, ci), 1, items, k + 1, s, ci)

EndsVia(cands, j, items, k, s, ci) ==
    IF j > Len(cands) THEN <<>>
    ELSE SeqEnds(items, k, s, cands[j], ci) \o EndsVia(cands, j + 1, items, k, s, ci)

\* one pass through a group: its alternatives in order
AltEnds(alts, a, s, pos, ci) ==
    IF a > Len(alts) THEN <<>>
    ELSE SeqEnds(alts[a], 1, s, pos, ci) \o AltEnds(alts, a + 1, s, pos, ci)

\* a quantified group after n passes: one more pass first (greedy), then stop
RepEnds(g, s, pos, ci, n) ==
    (IF g.max >= 0 /\ n >= g.max THEN <<>>
     ELSE RepVia(AltEnds(g.alts, 1, s, pos, ci), 1, g, s, ci, n + 1))
    \o (IF n >= g.min THEN <<pos>> ELSE <<>>)

RepVia(cands, j, g, s, ci, n) ==
    IF j > Len(cands) THEN <<>>
    ELSE RepEnds(g, s, cands[j], ci, n) \o RepVia(cands, j + 1, g, s, ci, n)

Fail == <<-1>>

RECURSIVE Path(_, _, _, _, _)
\* items[k] ends at e and the rest matches from there
PathTake(e, items, k, s, ci) == <<e>> \o Path(items, k + 1, s, e, ci)

\* ok: the indexes of the candidates after which the rest matches
PathPick(cands, ok, items, k, s, ci) ==
    IF ok = {} THEN Fail ELSE PathTake(cands[Least(ok)], items, k, s, ci)

\* The first successful way to match items[k..] from pos, as the end offset of
\* each element, or Fail: the candidates of items[k] are tried in order and
\* the first one after which the rest matches is taken.
PathVia(cands, items, k, s, ci) ==
    PathPick(cands, {j \in 1..Len(cands) : Path(items, k + 1, s, cands[j], ci) # Fail},
             items, k, s, ci)

Path(items, k, s, pos, ci) ==
    IF k > Len(items) THEN <<>>
    ELSE PathVia(ItemEnds(items[k], s, pos, ci), items, k, s, ci)

\* no match (Python's None)
NoMatch == [start |-> -1, end |-> -1, ends |-> <<>>]

\* the match object of a path p found at offset pos
MatchOf(p, pos) ==
    IF p = Fail THEN NoMatch ELSE [start |-> pos, end |-> p[Len(p)], ends |-> p]

\* pattern.match at offset pos: the match's start and end offsets and the end
\* offset of each top-level element of the pattern
MatchAt(re, s, pos) == MatchOf(Path(re.items, 1, s, pos, re.ci), pos)

\* at: the match at every offset; the first one at or after offset from
FirstAt(at, starts) == IF starts = {} THEN NoMatch ELSE at[Least(starts)]
FirstFrom(at, n, from) == FirstAt(at, {p \in from..n : at[p] # NoMatch})

\* the match at every offset of s
MatchesAt(re, s) == [p \in 0..Len(s) |-> MatchAt(re, s, p)]

\* re.search: the leftmost match
Search(re, s) == FirstFrom(MatchesAt(re, s), Len(s), 0)

RECURSIVE Scan(_, _, _)
\* the scan goes on after the match m: at its end, or one character on when
\* the match is empty
ScanOn(at, n, m) ==
    IF m = NoMatch THEN <<>>
    ELSE <<m>> \o Scan(at, n, IF m.end > m.start THEN m.end ELSE m.end + 1)

\* the non-overlapping matches at or after offset from, left to right
Scan(at, n, from) == ScanOn(at, n, FirstFrom(at, n, from))

\* re.finditer
FindIter(re, s) == Scan(MatchesAt(re, s), Len(s), 0)

\* the text of a match
Group0(m, s) == Slice(s, m.start, m.end)

\* the capturing groups of a pattern: the indexes of its capturing elements
CaptureItems(re) ==
    LET ks == {k \in 1..Len(re.items) : re.items[k].k = "grp" /\ re.items[k].cap}
    IN [i \in 1..Cardinality(ks) |->
          CHOOSE k \in ks : Cardinality({j \in ks : j < k}) = i - 1]

\* match.group(i) for the capturing element at index k
GroupText(m, s, k) == Slice(s, IF k = 1 THEN m.start ELSE m.ends[k - 1], m.ends[k])

\* what re.findall returns for the matches ms of a pattern whose capturing
\* elements are caps: per match the whole text (no group), the group's text
\* (one group) or the tuple of the groups' texts (several groups)
FindAllOf(ms, caps, s) ==
    [i \in 1..Len(ms) |->
        IF Len(caps) = 0 THEN Group0(ms[i], s)
        ELSE IF Len(caps) = 1 THEN GroupText(ms[i], s, caps[1])
        ELSE [g \in 1..Len(caps) |-> GroupText(ms[i], s, caps[g])]]

\* re.findall
FindAll(re, s) == FindAllOf(FindIter(re, s), CaptureItems(re), s)

\* the pieces of s between the matches ms, the empty leading and trailing
\* pieces included
SplitAt(ms, s) ==
    [i \in 1..(Len(ms) + 1) |->
        Slice(s, IF i = 1 THEN 0 ELSE ms[i - 1].end,
                 IF i = Len(ms) + 1 THEN Len(s) ELSE ms[i].start)]

\* re.split on a pattern that matches no empty string
ReSplit(re, s) == SplitAt(FindIter(re, s), s)

RECURSIVE LStrip(_), RStrip(_)
LStrip(s) == IF s # <<>> /\ Head(s) \in Whitespace THEN LStrip(Tail(s)) ELSE s
RStrip(s) == IF s # <<>> /\ s[Len(s)] \in Whitespace THEN RStrip(SubSeq(s, 1, Len(s) - 1)) ELSE s
\* str.strip()
Strip(s) == RStrip(LStrip(s))

\* [f(x) for x in xs if keep(x)] building blocks
RECURSIVE Flatten(_)
Flatten(ss) == IF ss = <<>> THEN <<>> ELSE Head(ss) \o Flatten(Tail(ss))
Range(s) == {s[i] : i \in 1..Len(s)}

\* ------------------------------------------------------ LegalNLPEngine

\* self.legal_patterns, in the dictionary's order
LegalPatterns == <<
    [type |-> "party", patterns |-> <<
        Re(TRUE, <<Grp(<<<<Lit(<<"p","a","r","t","y">>)>>, <<Lit(<<"c","o","m","p","a","n","y">>)>>, <<Lit(<<"f","i","r","m">>)>>, <<Lit(<<"o","r","g","a","n","i","z","a","t","i","o","n">>)>>>>, 1, 1, TRUE), Cls("space", 1, -1), Cls("AZ", 1, 1), Cls("partytail", 1, -1)>>),
        Re(TRUE, <<Grp(<<<<Lit(<<"h","e","r","e","i","n","a","f","t","e","r"," ","r","e","f","e","r","r","e","d"," ","t","o"," ","a","s">>)>>, <<Lit(<<"r","e","f","e","r","r","e","d"," ","t","o"," ","a","s">>)>>>>, 1, 1, TRUE), Cls("space", 1, -1), Lit(<<"\"">>), Grp(<<<<Cls("notquote", 1, -1)>>>>, 1, 1, TRUE), Lit(<<"\"">>)>>) >>],
    [type |-> "amount", patterns |-> <<
        Re(TRUE, <<Grp(<<<<Lit(<<"r","s">>), Opt(".")>>, <<Lit(<<"i","n","r">>)>>, <<Lit(<<"r","u","p","e","e","s">>)>>>>, 1, 1, TRUE), Cls("space", 0, -1), Cls("dcomma", 1, -1), Grp(<<<<Lit(<<".">>), Cls("digit", 2, 2)>>>>, 0, 1, FALSE)>>),
        Re(FALSE, <<Lit(<<"a^",",,","^1">>), Cls("space", 0, -1), Cls("dcomma", 1, -1), Grp(<<<<Lit(<<".">>), Cls("digit", 2, 2)>>>>, 0, 1, FALSE)>>),
        Re(TRUE, <<Cls("digit", 1, -1), Cls("space", 0, -1), Grp(<<<<Lit(<<"l","a","k","h">>)>>, <<Lit(<<"c","r","o","r","e">>)>>, <<Lit(<<"t","h","o","u","s","a","n","d">>)>>>>, 1, 1, TRUE)>>) >>],
    [type |-> "date", patterns |-> <<
        Re(FALSE, <<Cls("digit", 1, 2), Cls("slashdash", 1, 1), Cls("digit", 1, 2), Cls("slashdash", 1, 1), Cls("digit", 2, 4)>>),
        Re(TRUE, <<Grp(<<<<Lit(<<"j","a","n","u","a","r","y">>)>>, <<Lit(<<"f","e","b","r","u","a","r","y">>)>>, <<Lit(<<"m","a","r","c","h">>)>>, <<Lit(<<"a","p","r","i","l">>)>>, <<Lit(<<"m","a","y">>)>>, <<Lit(<<"j","u","n","e">>)>>, <<Lit(<<"j","u","l","y">>)>>, <<Lit(<<"a","u","g","u","s","t">>)>>, <<Lit(<<"s","e","p","t","e","m","b","e","r">>)>>, <<Lit(<<"o","c","t","o","b","e","r">>)>>, <<Lit(<<"n","o","v","e","m","b","e","r">>)>>, <<Lit(<<"d","e","c","e","m","b","e","r">>)>>>>, 1, 1, TRUE), Cls("space", 1, -1), Cls("digit", 1, 2), Opt(","), Cls("space", 1, -1), Cls("digit", 4, 4)>>) >>],
    [type |-> "duration", patterns |-> <<
        Re(TRUE, <<Cls("digit", 1, -1), Cls("space", 0, -1), Grp(<<<<Lit(<<"d","a","y">>), Opt("s")>>, <<Lit(<<"w","e","e","k">>), Opt("s")>>, <<Lit(<<"m","o","n","t","h">>), Opt("s")>>, <<Lit(<<"y","e","a","r">>), Opt("s")>>>>, 1, 1, TRUE)>>),
        Re(TRUE, <<Grp(<<<<Lit(<<"t","e","r","m"," ","o","f">>)>>, <<Lit(<<"p","e","r","i","o","d"," ","o","f">>)>>>>, 1, 1, TRUE), Cls("space", 1, -1), Cls("digit", 1, -1), Cls("space", 0, -1), Grp(<<<<Lit(<<"d","a","y">>), Opt("s")>>, <<Lit(<<"m","o","n","t","h">>), Opt("s")>>, <<Lit(<<"y","e","a","r">>), Opt("s")>>>>, 1, 1, TRUE)>>) >>] >>

ObligationMarkers == << <<"s","h","a","l","l">>, <<"m","u","s","t">>, <<"r","e","q","u","i","r","e","d"," ","t","o">>, <<"o","b","l","i","g","a","t","e","d"," ","t","o">>, <<"a","g","r","e","e","s"," ","t","o">> >>
RightMarkers == << <<"m","a","y">>, <<"e","n","t","i","t","l","e","d"," ","t","o">>, <<"h","a","s"," ","t","h","e"," ","r","i","g","h","t"," ","t","o">>, <<"p","e","r","m","i","t","t","e","d"," ","t","o">> >>
ProhibitionMarkers == << <<"s","h","a","l","l"," ","n","o","t">>, <<"m","u","s","t"," ","n","o","t">>, <<"p","r","o","h","i","b","i","t","e","d"," ","f","r","o","m">>, <<"r","e","s","t","r","i","c","t","e","d"," ","f","r","o","m">> >>

org_pattern == Re(FALSE, <<Wb, Cls("AZ", 1, 1), Cls("az", 1, -1), Grp(<<<<Cls("space", 1, -1), Cls("AZ", 1, 1), Cls("az", 1, -1)>>>>, 0, -1, FALSE), Cls("space", 1, -1), Grp(<<<<Lit(<<"L","t","d">>)>>, <<Lit(<<"L","i","m","i","t","e","d">>)>>, <<Lit(<<"I","n","c">>)>>, <<Lit(<<"C","o","r","p">>)>>, <<Lit(<<"C","o","m","p","a","n","y">>)>>, <<Lit(<<"P","v","t">>)>>>>, 1, 1, FALSE), Wb>>)

\* what one pattern's findall result adds to its entity type's list: the
\* non-empty groups of every tuple, or the results as they are
Extend(found, ngroups) ==
    IF Len(found) > 0 /\ ngroups > 1
    THEN Flatten([i \in 1..Len(found) |-> SelectSeq(found[i], LAMBDA g : g # <<>>)])
    ELSE found

PatternMatches(pattern, t) == Extend(FindAll(pattern, t), Len(CaptureItems(pattern)))

\* list(set(matches)) is modelled as the set: its order is not specified
TypeMatches(patterns, t) ==
    UNION {Range(PatternMatches(patterns[i], t)) : i \in 1..Len(patterns)}

\* faulty variant: an entity type without matches gets no key
extract_entities_skip_empty(patterns, t) ==
    [organizations |-> Range(FindAll(org_pattern, t)),
     persons |-> {}, dates |-> {}, money |-> {}, locations |-> {},
     custom |-> [ty \in {patterns[i].type :
                         i \in {j \in 1..Len(patterns) :
                                  TypeMatches(patterns[j].patterns, t) # {}}} |->
                   TypeMatches((CHOOSE e \in Range(patterns) : e.type = ty).patterns, t)]]

extract_entities(patterns, t) ==
    [organizations |-> Range(FindAll(org_pattern, t)),
     persons |-> {}, dates |-> {}, money |-> {}, locations |-> {},
     custom |-> [ty \in {patterns[i].type : i \in 1..Len(patterns)} |->
                   TypeMatches((CHOOSE e \in Range(patterns) : e.type = ty).patterns, t)]]

sentence_split == Re(FALSE, <<Cls("terminator", 1, -1)>>)

\* faulty variant: the pieces are filtered but not stripped
StripAll_unstripped(parts) == SelectSeq(parts, LAMBDA x : Strip(x) # <<>>)

\* faulty variant: the empty pieces are kept
StripAll_keep_empty(parts) == [i \in 1..Len(parts) |-> Strip(parts[i])]

\* [s.strip() for s in sentences if s.strip()]
StripAll(parts) ==
    SelectSeq([i \in 1..Len(parts) |-> Strip(parts[i])], LAMBDA x : x # <<>>)

\* re.split(r'[.!?]+', text), then the stripped non-empty pieces
Sentences(t) == StripAll(ReSplit(sentence_split, t))

\* any(marker in sent_lower for marker in markers)
AnyMarker(markers, sent_lower) == \E i \in 1..Len(markers) : Contains(sent_lower, markers[i])

\* faulty variant: obligations are checked before prohibitions
ClassOf_obligation_first(sent, obl, rgt, proh) ==
    IF AnyMarker(obl, Lower(sent)) THEN "obligations"
    ELSE IF AnyMarker(proh, Lower(sent)) THEN "prohibitions"
    ELSE IF AnyMarker(rgt, Lower(sent)) THEN "rights"
    ELSE "none"

\* the list one sentence is appended to by the if/elif chain
ClassOf(sent, obl, rgt, proh) ==
    IF AnyMarker(proh, Lower(sent)) THEN "prohibitions"
    ELSE IF AnyMarker(obl, Lower(sent)) THEN "obligations"
    ELSE IF AnyMarker(rgt, Lower(sent)) THEN "rights"
    ELSE "none"

\* the loop over the sentences; the locals at the return
Classify(sentences, obl, rgt, proh) ==
    [sentences |-> sentences,
     out |-> [c \in {"obligations", "rights", "prohibitions"} |->
                SelectSeq(sentences, LAMBDA x : ClassOf(x, obl, rgt, proh) = c)]]

classify_clauses(obl, rgt, proh, t) == Classify(Sentences(t), obl, rgt, proh)

ambiguous_terms == << <<"r","e","a","s","o","n","a","b","l","e">>, <<"a","p","p","r","o","p","r","i","a","t","e">>, <<"a","s"," ","s","o","o","n"," ","a","s"," ","p","o","s","s","i","b","l","e">>, <<"p","r","o","m","p","t","l","y">>,
    <<"s","u","b","s","t","a","n","t","i","a","l">>, <<"m","a","t","e","r","i","a","l">>, <<"b","e","s","t"," ","e","f","f","o","r","t","s">>, <<"g","o","o","d"," ","f","a","i","t","h">>,
    <<"a","p","p","r","o","x","i","m","a","t","e","l","y">>, <<"a","r","o","u","n","d">>, <<"m","a","y">>, <<"m","i","g","h","t">>, <<"c","o","u","l","d">> >>

\* [term for term in ambiguous_terms if term in sent_lower]
FoundTerms(sent) == SelectSeq(ambiguous_terms, LAMBDA term : Contains(Lower(sent), term))

\* the flag appended for a sentence with found terms
Flag(sent) ==
    [sentence |-> sent, terms |-> FoundTerms(sent),
     concern |-> "Vague language may lead to disputes"]

\* faulty variant: one flag per found term
FlagsOf_per_term(hits) ==
    Flatten([i \in 1..Len(hits) |->
               [j \in 1..Len(FoundTerms(hits[i])) |->
                  [sentence |-> hits[i], terms |-> <<FoundTerms(hits[i])[j]>>,
                   concern |-> "Vague language may lead to disputes"]]])

\* the sentences with found terms, one flag each
FlagsOf(hits) == [i \in 1..Len(hits) |-> Flag(hits[i])]

\* the loop over the sentences; the locals at the return
Flagged(sentences) ==
    [sentences |-> sentences,
     out |-> FlagsOf(SelectSeq(sentences, LAMBDA x : FoundTerms(x) # <<>>))]

detect_ambiguous_terms(t) == Flagged(Sentences(t))

\* --------------------------------------------------------- RiskAnalyzer

\* self.risk_patterns, in the dictionaries' order
RiskPatterns == <<
    [level |-> "high", categories |-> <<
        [category |-> "unlimited_liability", patterns |-> <<
            Re(TRUE, <<Lit(<<"u","n","l","i","m","i","t","e","d">>), Cls("space", 1, -1), Lit(<<"l","i","a","b","i","l","i","t","y">>)>>),
            Re(TRUE, <<Lit(<<"w","i","t","h","o","u","t">>), Cls("space", 1, -1), Lit(<<"a","n","y">>), Cls("space", 1, -1), Lit(<<"l","i","m","i","t">>)>>),
            Re(TRUE, <<Lit(<<"e","n","t","i","r","e">>), Cls("space", 1, -1), Lit(<<"l","i","a","b","i","l","i","t","y">>)>>) >>],
        [category |-> "unilateral_termination", patterns |-> <<
            Re(TRUE, <<Grp(<<<<Lit(<<"p","a","r","t","y">>), Cls("space", 1, -1), Cls("AB", 1, 1)>>, <<Lit(<<"c","o","m","p","a","n","y">>)>>, <<Lit(<<"f","i","r","s","t">>), Cls("space", 1, -1), Lit(<<"p","a","r","t","y">>)>>>>, 1, 1, TRUE), Cls("space", 1, -1), Lit(<<"m","a","y">>), Cls("space", 1, -1), Lit(<<"t","e","r","m","i","n","a","t","e">>), Cls("dot", 0, -1), Lit(<<"w","i","t","h","o","u","t">>), Cls("space", 1, -1), Grp(<<<<Lit(<<"n","o","t","i","c","e">>)>>, <<Lit(<<"c","a","u","s","e">>)>>>>, 1, 1, TRUE)>>),
            Re(TRUE, <<Lit(<<"t","e","r","m","i","n","a","t","e">>), Cls("space", 1, -1), Lit(<<"a","t">>), Cls("space", 1, -1), Lit(<<"w","i","l","l">>)>>),
            Re(TRUE, <<Lit(<<"s","o","l","e">>), Cls("space", 1, -1), Lit(<<"d","i","s","c","r","e","t","i","o","n">>), Cls("dot", 0, -1), Lit(<<"t","e","r","m","i","n","a","t","e">>)>>) >>],
        [category |-> "ip_transfer", patterns |-> <<
            Re(TRUE, <<Lit(<<"a","l","l">>), Cls("space", 1, -1), Lit(<<"i","n","t","e","l","l","e","c","t","u","a","l">>), Cls("space", 1, -1), Lit(<<"p","r","o","p","e","r","t","y">>), Cls("dot", 0, -1), Lit(<<"t","r","a","n","s","f","e","r","r","e","d">>)>>),
            Re(TRUE, <<Lit(<<"o","w","n","e","r","s","h","i","p">>), Cls("dot", 0, -1), Lit(<<"v","e","s","t","s">>), Cls("dot", 0, -1), Lit(<<"e","x","c","l","u","s","i","v","e","l","y">>)>>),
            Re(TRUE, <<Lit(<<"i","r","r","e","v","o","c","a","b","l","e">>), Cls("dot", 0, -1), Lit(<<"a","s","s","i","g","n","m","e","n","t">>), Cls("dot", 0, -1), Lit(<<"i","p">>)>>) >>],
        [category |-> "non_compete_broad", patterns |-> <<
            Re(TRUE, <<Lit(<<"n","o","n","-","c","o","m","p","e","t","e">>), Cls("dot", 0, -1), Cls("digit", 1, -1), Cls("space", 1, -1), Grp(<<<<Lit(<<"y","e","a","r","s">>)>>, <<Lit(<<"y","e","a","r">>)>>>>, 1, 1, TRUE)>>),
            Re(TRUE, <<Lit(<<"n","o","t">>), Cls("space", 1, -1), Lit(<<"e","n","g","a","g","e">>), Cls("dot", 0, -1), Lit(<<"c","o","m","p","e","t","i","n","g">>), Cls("dot", 0, -1), Lit(<<"b","u","s","i","n","e","s","s">>)>>),
            Re(TRUE, <<Lit(<<"r","e","s","t","r","i","c","t","e","d">>), Cls("dot", 0, -1), Lit(<<"s","i","m","i","l","a","r">>), Cls("dot", 0, -1), Lit(<<"a","c","t","i","v","i","t","y">>)>>) >>] >>],
    [level |-> "medium", categories |-> <<
        [category |-> "auto_renewal", patterns |-> <<
            Re(TRUE, <<Lit(<<"a","u","t","o","m","a","t","i","c","a","l","l","y">>), Cls("space", 1, -1), Lit(<<"r","e","n","e","w","e">>), Opt("d")>>),
            Re(TRUE, <<Lit(<<"a","u","t","o","-","r","e","n","e","w","a","l">>)>>),
            Re(TRUE, <<Lit(<<"u","n","l","e","s","s">>), Cls("dot", 0, -1), Lit(<<"n","o","t","i","c","e">>), Cls("dot", 0, -1), Cls("digit", 1, -1), Cls("space", 1, -1), Lit(<<"d","a","y","s">>), Cls("dot", 0, -1), Lit(<<"r","e","n","e","w">>)>>) >>],
        [category |-> "penalty_clause", patterns |-> <<
            Re(TRUE, <<Lit(<<"p","e","n","a","l","t","y">>), Cls("dot", 0, -1), Lit(<<"a^",",,">>), Opt("^1"), Cls("digit", 1, -1)>>),
            Re(TRUE, <<Lit(<<"l","i","q","u","i","d","a","t","e","d">>), Cls("space", 1, -1), Lit(<<"d","a","m","a","g","e","s">>)>>),
            Re(TRUE, <<Lit(<<"s","h","a","l","l">>), Cls("space", 1, -1), Lit(<<"p","a","y">>), Cls("dot", 0, -1), Lit(<<"b","r","e","a","c","h">>)>>) >>],
        [category |-> "jurisdiction_limited", patterns |-> <<
            Re(TRUE, <<Lit(<<"e","x","c","l","u","s","i","v","e">>), Cls("space", 1, -1), Lit(<<"j","u","r","i","s","d","i","c","t","i","o","n">>)>>),
            Re(TRUE, <<Lit(<<"c","o","u","r","t">>), Opt("s"), Cls("space", 1, -1), Lit(<<"a","t">>), Cls("space", 1, -1), Cls("word", 1, -1), Cls("space", 1, -1), Lit(<<"o","n","l","y">>)>>),
            Re(TRUE, <<Lit(<<"s","u","b","j","e","c","t">>), Cls("space", 1, -1), Lit(<<"t","o">>), Cls("dot", 0, -1), Lit(<<"j","u","r","i","s","d","i","c","t","i","o","n">>), Cls("dot", 0, -1), Cls("word", 1, -1)>>) >>],
        [category |-> "indemnity_broad", patterns |-> <<
            Re(TRUE, <<Lit(<<"i","n","d","e","m","n","i","f","y">>), Cls("dot", 0, -1), Lit(<<"h","o","l","d">>), Cls("space", 1, -1), Lit(<<"h","a","r","m","l","e","s","s">>)>>),
            Re(TRUE, <<Lit(<<"d","e","f","e","n","d">>), Cls("dot", 0, -1), Lit(<<"a","g","a","i","n","s","t">>), Cls("space", 1, -1), Lit(<<"a","n","y">>), Cls("space", 1, -1), Lit(<<"c","l","a","i","m">>), Opt("s")>>),
            Re(TRUE, <<Lit(<<"i","n","d","e","m","n","i","f","i","c","a","t","i","o","n">>), Cls("dot", 0, -1), Lit(<<"l","o","s","s","e","s">>)>>) >>] >>],
    [level |-> "low", categories |-> <<
        [category |-> "notice_period", patterns |-> <<
            Re(TRUE, <<Cls("digit", 1, -1), Cls("space", 1, -1), Lit(<<"d","a","y">>), Opt("s"), Cls("space", 1, -1), Lit(<<"n","o","t","i","c","e">>)>>),
            Re(TRUE, <<Lit(<<"n","o","t","i","c","e">>), Cls("space", 1, -1), Lit(<<"p","e","r","i","o","d">>), Cls("dot", 0, -1), Cls("digit", 1, -1)>>) >>],
        [category |-> "confidentiality", patterns |-> <<
            Re(TRUE, <<Lit(<<"c","o","n","f","i","d","e","n","t","i","a","l">>), Cls("space", 1, -1), Lit(<<"i","n","f","o","r","m","a","t","i","o","n">>)>>),
            Re(TRUE, <<Lit(<<"n","o","n","-","d","i","s","c","l","o","s","u","r","e">>)>>) >>] >>] >>

\* characters of context kept before and after a match
ContextWindow == 50

Max(a, b) == IF a >= b THEN a ELSE b
Min(a, b) == IF a <= b THEN a ELSE b

\* the finding appended for one match
Finding(category, m, t) ==
    [category |-> category,
     matched_text |-> Group0(m, t),
     context |-> Slice(t, Max(0, m.start - ContextWindow), Min(Len(t), m.end + ContextWindow)),
     position |-> m.start]

\* the findings of the matches ms of one pattern
FindingsOf(category, ms, t) == [j \in 1..Len(ms) |-> Finding(category, ms[j], t)]

\* for pattern in patterns: for match in re.finditer(pattern, text): append
CategoryFindings(cat, t) ==
    Flatten([i \in 1..Len(cat.patterns) |->
               FindingsOf(cat.category, FindIter(cat.patterns[i], t), t)])

\* faulty variant: the findings of a tier are put in the order of the text
TierFindings_by_position(tier, t) ==
    LET fs == Flatten([c \in 1..Len(tier.categories) |->
                         CategoryFindings(tier.categories[c], t)])
        rank(i) == Cardinality({j \in 1..Len(fs) :
                                  \/ fs[j].position < fs[i].position
                                  \/ fs[j].position = fs[i].position /\ j < i})
    IN [k \in 1..Len(fs) |-> fs[CHOOSE i \in 1..Len(fs) : rank(i) = k - 1]]

\* for category, patterns in categories.items(): ...
TierFindings(tier, t) ==
    Flatten([c \in 1..Len(tier.categories) |-> CategoryFindings(tier.categories[c], t)])

\* risk_findings[risk_level] after the scan of all tiers
LevelFindings(patterns, level, t) ==
    Flatten([i \in 1..Len(patterns) |->
               IF patterns[i].level = level THEN TierFindings(patterns[i], t) ELSE <<>>])

weights == [high |-> 10, medium |-> 5, low |-> 1]

\* sum(len(risk_findings[level]) * weights[level] for level in weights.keys())
TotalScore(high, medium, low) ==
    Len(high) * weights.high + Len(medium) * weights.medium + Len(low) * weights.low

\* faulty variant: the score is not capped
CompositeScore_uncapped(total_score) == total_score

\* risk_findings['composite_score'] = min(100, total_score)
CompositeScore(total_score) == Min(100, total_score)

\* faulty variant: the thresholds are inclusive
Level_inclusive(score) ==
    IF score >= 60 THEN "HIGH RISK"
    ELSE IF score >= 30 THEN "MEDIUM RISK"
    ELSE "LOW RISK"

\* the level interpretation of a composite score
Level(score) ==
    IF score > 60 THEN "HIGH RISK"
    ELSE IF score > 30 THEN "MEDIUM RISK"
    ELSE "LOW RISK"

Recommendation(score) ==
    IF score > 60 THEN "Immediate legal review recommended"
    ELSE IF score > 30 THEN "Review and negotiate key clauses"
    ELSE "Standard contract with minor concerns"

\* the report returned for the findings and their score
Report(high, medium, low, score) ==
    [high |-> high, medium |-> medium, low |-> low,
     composite_score |-> score,
     level |-> Level(score),
     recommendation |-> Recommendation(score)]

Scored(high, medium, low) ==
    Report(high, medium, low, CompositeScore(TotalScore(high, medium, low)))

analyze_contract(patterns, t) ==
    Scored(LevelFindings(patterns, "high", t),
           LevelFindings(patterns, "medium", t),
           LevelFindings(patterns, "low", t))

\* essential_elements, in the dictionary's order
essential_elements == <<
    [element |-> "consideration",
     pattern |-> Re(TRUE, <<Grp(<<<<Lit(<<"c","o","n","s","i","d","e","r","a","t","i","o","n">>)>>, <<Lit(<<"v","a","l","u","a","b","l","e">>), Cls("space", 1, -1), Lit(<<"c","o","n","s","i","d","e","r","a","t","i","o","n">>)>>, <<Lit(<<"m","o","n","e","t","a","r","y">>)>>, <<Lit(<<"p","a","y","m","e","n","t">>)>>>>, 1, 1, TRUE)>>)],
    [element |-> "free_consent",
     pattern |-> Re(TRUE, <<Grp(<<<<Lit(<<"c","o","n","s","e","n","t">>)>>, <<Lit(<<"a","g","r","e","e">>)>>, <<Lit(<<"a","c","c","e","p","t","a","n","c","e">>)>>, <<Lit(<<"m","u","t","u","a","l">>), Cls("space", 1, -1), Lit(<<"u","n","d","e","r","s","t","a","n","d","i","n","g">>)>>>>, 1, 1, TRUE)>>)],
    [element |-> "competent_parties",
     pattern |-> Re(TRUE, <<Grp(<<<<Lit(<<"m","a","j","o","r">>)>>, <<Lit(<<"a","g","e">>), Cls("space", 1, -1), Lit(<<"o","f">>), Cls("space", 1, -1), Lit(<<"m","a","j","o","r","i","t","y">>)>>, <<Lit(<<"s","o","u","n","d">>), Cls("space", 1, -1), Lit(<<"m","i","n","d">>)>>, <<Lit(<<"c","o","m","p","e","t","e","n","t">>)>>>>, 1, 1, TRUE)>>)],
    [element |-> "lawful_object",
     pattern |-> Re(TRUE, <<Grp(<<<<Lit(<<"l","a","w","f","u","l">>), Cls("space", 1, -1), Lit(<<"p","u","r","p","o","s","e">>)>>, <<Lit(<<"l","e","g","a","l">>), Cls("space", 1, -1), Lit(<<"o","b","j","e","c","t">>)>>, <<Lit(<<"l","e","g","i","t","i","m","a","t","e">>)>>>>, 1, 1, TRUE)>>)] >>

\* faulty variant: the test of the search result is inverted
ComplianceEntry_inverted(e, t) ==
    IF Search(e.pattern, t) # NoMatch
    THEN [element |-> e.element, status |-> "MISSING", severity |-> "high",
          note |-> "Contract should explicitly mention " \o e.element
                   \o " as per Section 10, Indian Contract Act"]
    ELSE [element |-> e.element, status |-> "PRESENT", severity |-> "none"]

\* the entry appended for one essential element
ComplianceEntry(e, t) ==
    IF Search(e.pattern, t) = NoMatch
    THEN [element |-> e.element, status |-> "MISSING", severity |-> "high",
          note |-> "Contract should explicitly mention " \o e.element
                   \o " as per Section 10, Indian Contract Act"]
    ELSE [element |-> e.element, status |-> "PRESENT", severity |-> "none"]

check_indian_compliance(t, contract_type) ==
    [i \in 1..Len(essential_elements) |-> ComplianceEntry(essential_elements[i], t)]

\* ------------------------------------------------------- ContractParser

\* the patterns of _detect_sections
section_patterns == <<
    Re(TRUE, <<Grp(<<<<Lit(<<"a","r","t","i","c","l","e">>)>>, <<Lit(<<"s","e","c","t","i","o","n">>)>>, <<Lit(<<"c","l","a","u","s","e">>)>>>>, 1, 1, TRUE), Cls("space", 1, -1), Grp(<<<<Cls("digit", 1, -1)>>>>, 1, 1, TRUE)>>),
    Re(TRUE, <<Grp(<<<<Lit(<<"p","a","r","t","i","e","s">>)>>, <<Lit(<<"d","e","f","i","n","i","t","i","o","n","s">>)>>, <<Lit(<<"s","c","o","p","e">>)>>, <<Lit(<<"t","e","r","m">>)>>, <<Lit(<<"p","a","y","m","e","n","t">>)>>, <<Lit(<<"l","i","a","b","i","l","i","t","y">>)>>>>, 1, 1, TRUE)>>) >>

\* the shortest text _detect_sections looks into
MinSectionText == 10

\* sections.append({'header': match.group(0), 'position': match.start()})
SectionsOf(ms, t) == [j \in 1..Len(ms) |-> [header |-> Group0(ms[j], t), position |-> ms[j].start]]

detect_sections(t) ==
    IF Len(t) < MinSectionText THEN <<>>
    ELSE Flatten([i \in 1..Len(section_patterns) |->
                    SectionsOf(FindIter(section_patterns[i], t), t)])

\* the placeholder texts
PdfFailed == <<"C","o","u","l","d"," ","n","o","t"," ","e","x","t","r","a","c","t"," ","t","e","x","t"," ","f","r","o","m"," ","P","D","F">>
PdfEmpty == <<"N","o"," ","t","e","x","t"," ","e","x","t","r","a","c","t","e","d"," ","f","r","o","m"," ","P","D","F">>
DocxFailed == <<"E","r","r","o","r"," ","r","e","a","d","i","n","g"," ","W","o","r","d"," ","d","o","c","u","m","e","n","t">>
TxtFailed == <<"E","r","r","o","r"," ","r","e","a","d","i","n","g"," ","t","e","x","t"," ","f","i","l","e">>

\* metadata = {}
EmptyMeta == [k \in {} |-> ""]

\* str(e) of the exception a decoder raises
ErrorOf(decoder) == decoder \o " could not read the file"

\* text += page_text + "\n\n" for the pages with text, up to page n
PagesText(pages, n) ==
    Flatten([i \in 1..n |->
               IF pages[i].text # <<>> THEN pages[i].text \o <<"\n","\n">> ELSE <<>>])

\* the pages a decoder extracts before a page raises
PagesRead(pages) ==
    IF \A i \in 1..Len(pages) : pages[i].ok THEN Len(pages)
    ELSE Least({i \in 1..Len(pages) : ~pages[i].ok}) - 1

\* one decoder's with-block in _parse_pdf, on the outcome o the decoder has
\* for the file: the locals text and metadata after it, and whether it raised
PdfRead(o, t, md) ==
    IF ~o.opens THEN [raised |-> TRUE, text |-> t, metadata |-> md]
    ELSE [raised |-> PagesRead(o.pages) < Len(o.pages),
          text |-> t \o PagesText(o.pages, PagesRead(o.pages)),
          metadata |-> ("pages" :> Len(o.pages)) @@ md]

\* the record _parse_pdf returns
PdfResult(t, md) == [raw_text |-> t, sections |-> detect_sections(t), metadata |-> md]

\* "\n\n".join([para.text for para in doc.paragraphs if para.text.strip()])
RECURSIVE Join(_)
Join(ss) ==
    IF ss = <<>> THEN <<>>
    ELSE IF Len(ss) = 1 THEN ss[1]
    ELSE ss[1] \o <<"\n","\n">> \o Join(Tail(ss))

DocxText(paragraphs) == Join(SelectSeq(paragraphs, LAMBDA x : Strip(x) # <<>>))

\* _parse_docx
parse_docx(o) ==
    IF o.ok
    THEN [raw_text |-> DocxText(o.paragraphs),
          sections |-> detect_sections(DocxText(o.paragraphs)),
          metadata |-> ("paragraphs" :> Len(o.paragraphs))]
    ELSE [raw_text |-> DocxFailed, sections |-> <<>>,
          metadata |-> ("error" :> ErrorOf("python-docx"))]

\* the record _parse_txt returns for a text it could read
TxtResult(t) == [raw_text |-> t, sections |-> detect_sections(t), metadata |-> EmptyMeta]

\* the record _parse_txt returns when both encodings failed
TxtError == [raw_text |-> TxtFailed, sections |-> <<>>,
             metadata |-> ("error" :> ErrorOf("latin-1"))]

\* ------------------------------------------------------------- state

VARIABLES
    text,                 \* the contract text handed to the components
    legal_patterns,       \* LegalNLPEngine.legal_patterns
    obligation_markers,   \* LegalNLPEngine.obligation_markers
    right_markers,        \* LegalNLPEngine.right_markers
    prohibition_markers,  \* LegalNLPEngine.prohibition_markers
    risk_patterns,        \* RiskAnalyzer.risk_patterns
    entities,             \* last extract_entities call
    classified,           \* last classify_clauses call
    flagged,              \* last detect_ambiguous_terms call
    report,               \* last analyze_contract call
    compliance,           \* last check_indian_compliance call
    file,                 \* the uploaded file: its declared type and what each decoder does with it
    pc,                   \* position of parse_document
    ptext,                \* the local text of the parse method
    metadata,             \* the local metadata of the parse method
    tried,                \* the decoders tried so far, in order
    parsed,               \* the record parse_document returned
    uploaded_file,        \* the file in the uploader: its name and what each decoder does with it
    hpc,                  \* position of the script run
    entry,                \* the session state at the click on 'Start Analysis'
    contract_data,        \* st.session_state.contract_data
    analysis_done,        \* st.session_state.analysis_done
    error,                \* the message st.error shows in the run, "" if none
    rendered,             \* the result the page displays and exports
    clock                 \* number of analyses started, read by datetime.now()

tables == <<legal_patterns, obligation_markers, right_markers, prohibition_markers, risk_patterns>>
results == <<entities, classified, flagged, report, compliance>>
parsing == <<file, pc, ptext, metadata, tried, parsed>>
session == <<uploaded_file, hpc, entry, contract_data, analysis_done, error, rendered, clock>>
vars == <<text, tables, results, parsing, session>>

\* a component that has not been called yet
NotCalled == [called |-> FALSE, input |-> <<>>, sentences |-> <<>>, out |-> <<>>]

\* the record of one call: its argument, its local list of sentences (the
\* components that split the text) and its return value
Call(t, sentences, out) == [called |-> TRUE, input |-> t, sentences |-> sentences, out |-> out]
CallOf(t, locals) == Call(t, locals.sentences, locals.out)

\* LegalNLPEngine() and RiskAnalyzer(), as built once by load_components
InitEngines ==
    /\ legal_patterns = LegalPatterns
    /\ obligation_markers = ObligationMarkers
    /\ right_markers = RightMarkers
    /\ prohibition_markers = ProhibitionMarkers
    /\ risk_patterns = RiskPatterns
    /\ entities = NotCalled
    /\ classified = NotCalled
    /\ flagged = NotCalled
    /\ report = NotCalled
    /\ compliance = NotCalled

\* no upload yet
NoFile == [type |-> "none"]
NotParsed == [raw_text |-> <<>>, sections |-> <<>>, metadata |-> EmptyMeta]

\* the parser before parse_document(f) is called
ParserAt(f, at) ==
    /\ file = f
    /\ pc = at
    /\ ptext = <<>>
    /\ metadata = EmptyMeta
    /\ tried = <<>>
    /\ parsed = NotParsed

\* ContractParser() with no call in progress
InitParsing == ParserAt(NoFile, "idle")

\* st.session_state.contract_data = None
None == [none |-> TRUE]
\* the uploader without a file
NoUpload == [name |-> <<>>]

\* the first script run of a session
InitSession ==
    /\ uploaded_file = NoUpload
    /\ hpc = "idle"
    /\ entry = [analysis_done |-> FALSE, contract_data |-> None]
    /\ contract_data = None
    /\ analysis_done = FALSE
    /\ error = ""
    /\ rendered = None
    /\ clock = 0

\* ----------------------------------------------------------- operations

\* faulty variant: the call consumes the first pattern list of the shared table
ExtractEntities_consuming(t) ==
    /\ entities' = Call(t, <<>>, extract_entities(legal_patterns, t))
    /\ legal_patterns' = Tail(legal_patterns)
    /\ UNCHANGED <<text, obligation_markers, right_markers, prohibition_markers,
                   risk_patterns, classified, flagged, report, compliance, parsing, session>>

ExtractEntities(t) ==
    /\ entities' = Call(t, <<>>, extract_entities(legal_patterns, t))
    /\ UNCHANGED <<text, tables, classified, flagged, report, compliance, parsing, session>>

ClassifyClauses(t) ==
    /\ classified' = CallOf(t, classify_clauses(obligation_markers, right_markers,
                                                prohibition_markers, t))
    /\ UNCHANGED <<text, tables, entities, flagged, report, compliance, parsing, session>>

DetectAmbiguousTerms(t) ==
    /\ flagged' = CallOf(t, detect_ambiguous_terms(t))
    /\ UNCHANGED <<text, tables, entities, classified, report, compliance, parsing, session>>

AnalyzeContract(t) ==
    /\ report' = Call(t, <<>>, analyze_contract(risk_patterns, t))
    /\ UNCHANGED <<text, tables, entities, classified, flagged, compliance, parsing, session>>

CheckIndianCompliance(t) ==
    /\ compliance' = Call(t, <<>>, check_indian_compliance(t, "general"))
    /\ UNCHANGED <<text, tables, entities, classified, flagged, report, parsing, session>>

\* parse_document: the dispatch on the declared type
ParseDocument ==
    /\ pc = "start"
    /\ pc' = IF file.type = "pdf" THEN "pdfplumber"
             ELSE IF file.type = "docx" THEN "docx"
             ELSE "utf8"
    /\ ptext' = <<>>
    /\ metadata' = EmptyMeta
    /\ UNCHANGED <<session, text, tables, results, file, tried, parsed>>

\* _parse_pdf: the outer try, with pdfplumber
Pdfplumber ==
    /\ pc = "pdfplumber"
    /\ ptext' = PdfRead(file.pdfplumber, ptext, metadata).text
    /\ metadata' = PdfRead(file.pdfplumber, ptext, metadata).metadata
    /\ tried' = Append(tried, "pdfplumber")
    /\ pc' = IF PdfRead(file.pdfplumber, ptext, metadata).raised THEN "pypdf2" ELSE "pdf_return"
    /\ UNCHANGED <<session, text, tables, results, file, parsed>>

\* _parse_pdf: the except branch, with PyPDF2 in the inner try
PyPDF2 ==
    /\ pc = "pypdf2"
    /\ IF PdfRead(file.pypdf2, ptext, metadata).raised
       THEN /\ ptext' = PdfFailed
            /\ metadata' = ("error" :> ErrorOf("PyPDF2"))
                              @@ PdfRead(file.pypdf2, ptext, metadata).metadata
       ELSE /\ ptext' = PdfRead(file.pypdf2, ptext, metadata).text
            /\ metadata' = PdfRead(file.pypdf2, ptext, metadata).metadata
    /\ tried' = Append(tried, "PyPDF2")
    /\ pc' = "pdf_return"
    /\ UNCHANGED <<session, text, tables, results, file, parsed>>

\* _parse_pdf: from 'if not text.strip()' to the return
PdfReturn ==
    /\ pc = "pdf_return"
    /\ ptext' = IF Strip(ptext) = <<>> THEN PdfEmpty ELSE ptext
    /\ parsed' = PdfResult(ptext', metadata)
    /\ pc' = "done"
    /\ UNCHANGED <<session, text, tables, results, file, metadata, tried>>

\* _parse_docx
ParseDocx ==
    /\ pc = "docx"
    /\ parsed' = parse_docx(file.document)
    /\ ptext' = parsed'.raw_text
    /\ metadata' = parsed'.metadata
    /\ tried' = Append(tried, "python-docx")
    /\ pc' = "done"
    /\ UNCHANGED <<session, text, tables, results, file>>

\* _parse_txt: the outer try, reading as utf-8
ReadUtf8 ==
    /\ pc = "utf8"
    /\ ptext' = IF file.utf8.ok THEN file.utf8.text ELSE ptext
    /\ pc' = IF file.utf8.ok THEN "txt_return" ELSE "latin1"
    /\ tried' = Append(tried, "utf-8")
    /\ UNCHANGED <<session, text, tables, results, file, metadata, parsed>>

\* faulty variant: the second failure is not handled
ReadLatin1_unhandled ==
    /\ pc = "latin1"
    /\ IF file.latin1.ok
       THEN /\ ptext' = file.latin1.text
            /\ pc' = "txt_return"
       ELSE /\ ptext' = ptext
            /\ pc' = "raised"
    /\ tried' = Append(tried, "latin-1")
    /\ UNCHANGED <<session, text, tables, results, file, metadata, parsed>>

\* _parse_txt: the bare except, reading as latin-1 in the inner try
ReadLatin1 ==
    /\ pc = "latin1"
    /\ IF file.latin1.ok
       THEN /\ ptext' = file.latin1.text
            /\ pc' = "txt_return"
            /\ UNCHANGED <<metadata, parsed>>
       ELSE /\ parsed' = TxtError
            /\ ptext' = TxtError.raw_text
            /\ metadata' = TxtError.metadata
            /\ pc' = "done"
    /\ tried' = Append(tried, "latin-1")
    /\ UNCHANGED <<session, text, tables, results, file>>

\* _parse_txt: _detect_sections and the return
TxtReturn ==
    /\ pc = "txt_return"
    /\ parsed' = TxtResult(ptext)
    /\ pc' = "done"
    /\ UNCHANGED <<session, text, tables, results, file, ptext, metadata, tried>>


\* ------------------------------------------------------------- app.py

\* the characters of a name as one string
RECURSIVE Str(_)
Str(cs) == IF cs = <<>> THEN "" ELSE cs[1] \o Str(Tail(cs))

\* uploaded_file.name.split('.')[-1]
ExtOf(name) ==
    IF \A i \in 1..Len(name) : name[i] # "." THEN Str(name)
    ELSE Str(SubSeq(name, 1 + Max(0, CHOOSE i \in 1..Len(name) :
                                          /\ name[i] = "."
                                          /\ \A j \in (i + 1)..Len(name) : name[j] # "."),
                    Len(name)))

\* the temporary copy of the upload, as parse_document gets it
FileOf(u) ==
    [type |-> ExtOf(u.name), pdfplumber |-> u.pdfplumber, pypdf2 |-> u.pypdf2,
     document |-> u.document, utf8 |-> u.utf8, latin1 |-> u.latin1]

\* what the 'Display results' block shows
Shown(done, data) == IF done /\ data # None THEN data ELSE None

\* a script run without a click: the uploader changes, the page is drawn
Upload(u) ==
    /\ hpc = "idle"
    /\ uploaded_file' = u
    /\ error' = ""
    /\ rendered' = Shown(analysis_done, contract_data)
    /\ UNCHANGED <<text, tables, results, parsing, hpc, entry, contract_data,
                   analysis_done, clock>>

\* the analyses of one session
MaxRuns == 2

\* the click on 'Start Analysis': the temporary file is written and
\* parse_document is called, or the write raises
StartAnalysis(written) ==
    /\ hpc = "idle"
    /\ uploaded_file # NoUpload
    /\ clock < MaxRuns
    /\ clock' = clock + 1
    /\ entry' = [analysis_done |-> analysis_done, contract_data |-> contract_data]
    /\ IF written
       THEN /\ hpc' = "parse"
            /\ error' = ""
            /\ file' = FileOf(uploaded_file)
            /\ pc' = "start"
            /\ ptext' = <<>>
            /\ metadata' = EmptyMeta
            /\ tried' = <<>>
            /\ parsed' = NotParsed
       ELSE /\ hpc' = "display"
            /\ error' = ErrorOf("open")
            /\ UNCHANGED parsing
    /\ UNCHANGED <<text, tables, results, uploaded_file, contract_data, analysis_done,
                   rendered>>

\* the NLP analysis and the risk analysis of parsed['raw_text']
Analyze ==
    /\ hpc = "parse"
    /\ pc = "done"
    /\ text' = parsed.raw_text
    /\ entities' = Call(text', <<>>, extract_entities(legal_patterns, text'))
    /\ classified' = CallOf(text', classify_clauses(obligation_markers, right_markers,
                                                    prohibition_markers, text'))
    /\ flagged' = CallOf(text', detect_ambiguous_terms(text'))
    /\ report' = Call(text', <<>>, analyze_contract(risk_patterns, text'))
    /\ compliance' = Call(text', <<>>, check_indian_compliance(text', "general"))
    /\ hpc' = "store"
    /\ UNCHANGED <<tables, parsing, uploaded_file, entry, contract_data, analysis_done,
                   error, rendered, clock>>

\* st.session_state.contract_data = {...}
Store ==
    /\ hpc = "store"
    /\ contract_data' =
          [parsed |-> parsed,
           entities |-> entities.out,
           classified |-> classified.out,
           ambiguous |-> flagged.out,
           risks |-> report.out,
           compliance |-> compliance.out,
           contract_type |-> "Service Agreement (auto-detected)",
           summary |-> "rule-based",
           filename |-> uploaded_file.name,
           timestamp |-> clock]
    /\ hpc' = "mark"
    /\ UNCHANGED <<text, tables, results, parsing, uploaded_file, entry, analysis_done,
                   error, rendered, clock>>

\* st.session_state.analysis_done = True
MarkDone ==
    /\ hpc = "mark"
    /\ analysis_done' = TRUE
    /\ hpc' = "cleanup"
    /\ UNCHANGED <<text, tables, results, parsing, uploaded_file, entry, contract_data,
                   error, rendered, clock>>

\* os.remove(temp_path), then st.rerun(); or os.remove raises and the
\* except branch shows the error
Cleanup(removed) ==
    /\ hpc = "cleanup"
    /\ error' = IF removed THEN "" ELSE ErrorOf("os.remove")
    /\ hpc' = "display"
    /\ UNCHANGED <<text, tables, results, parsing, uploaded_file, entry, contract_data,
                   analysis_done, rendered, clock>>

\* the 'Display results' block at the end of the script run
Display ==
    /\ hpc = "display"
    /\ rendered' = Shown(analysis_done, contract_data)
    /\ hpc' = "idle"
    /\ UNCHANGED <<text, tables, results, parsing, uploaded_file, entry, contract_data,
                   analysis_done, error, clock>>

\* ---------------------------------------------------------------- inputs

\* the texts made of at most n pieces of a vocabulary
Pieces(vocab, n) ==
    LET idx == UNION {[1..k -> 1..Len(vocab)] : k \in 0..n}
    IN {Flatten([i \in 1..Len(f) |-> vocab[f[i]]]) : f \in idx}

\* s repeated n times
RECURSIVE Repeat(_, _)
Repeat(s, n) == IF n = 0 THEN <<>> ELSE s \o Repeat(s, n - 1)

\* the scenario text of the specification
ScenarioText == <<"P","a","r","t","y"," ","A"," ","s","h","a","l","l"," ","p","a","y"," ","R","s","."," ","5","0",",","0","0","0"," ","w","i","t","h","i","n"," ","3","0"," ","d","a","y","s","."," ","P","a","r","t","y"," ","A"," ","s","h","a","l","l"," ","n","o","t"," ","d","i","s","c","l","o","s","e"," ","c","o","n","f","i","d","e","n","t","i","a","l"," ","i","n","f","o","r","m","a","t","i","o","n",".">>

MaxWords == 4
NLPVocab == << <<"S","h","a","l","l">>, <<" ","n","o","t">>, <<"M","a","y">>, <<"c","o","u","l","d"," ","p","r","o","m","p","t","l","y">>, <<".">>, <<"?","!"," ">> >>
NLPTexts == Pieces(NLPVocab, MaxWords) \cup {ScenarioText}

MaxEntityPieces == 2
EntityVocab == << <<"R","s","."," ","5","0",",","0","0","0">>, <<"3","0"," ","d","a","y","s">>, <<" ">>, <<"A","c","m","e"," ","C","o","m","p","a","n","y">>, <<"1","2","/","0","5","/","2","0","2","3">>,
    <<"r","e","f","e","r","r","e","d"," ","t","o"," ","a","s"," ","\"">>, <<"1","0"," ","l","a","k","h">> >>
EntityTexts == Pieces(EntityVocab, MaxEntityPieces) \cup {ScenarioText}

MaxHigh == 10
MaxMedium == 1
MaxLow == 1
MaxRiskPieces == 2
RiskVocab == << <<"t","e","r","m","i","n","a","t","e"," ","a","t"," ","w","i","l","l">>, <<"e","n","t","i","r","e"," ","l","i","a","b","i","l","i","t","y">>, <<"e","x","c","l","u","s","i","v","e"," ","j","u","r","i","s","d","i","c","t","i","o","n">>,
    <<"3","0"," ","d","a","y","s"," ","n","o","t","i","c","e">>, <<"\n">>, <<"s","u","b","j","e","c","t"," ","t","o"," ">> >>
ScoreTexts ==
    {Repeat(<<"e","n","t","i","r","e"," ","l","i","a","b","i","l","i","t","y">>, h) \o Repeat(<<"a","u","t","o","-","r","e","n","e","w","a","l">>, m) \o Repeat(<<"n","o","n","-","d","i","s","c","l","o","s","u","r","e">>, l) :
        h \in 0..MaxHigh, m \in 0..MaxMedium, l \in 0..MaxLow}
RiskTexts == ScoreTexts \cup Pieces(RiskVocab, MaxRiskPieces)

MaxCompliancePieces == 3
ComplianceVocab == << <<"P","a","y","m","e","n","t">>, <<"c","o","n","s","e","n","t">>, <<"s","o","u","n","d"," "," ","m","i","n","d">>, <<"l","e","g","i","t","i","m","a","t","e">>, <<"l","e","g","a","l">>, <<" ","o","b","j","e","c","t">> >>
ComplianceTexts == Pieces(ComplianceVocab, MaxCompliancePieces)

\* the texts of the interleaved calls
CallTexts == {<<>>, <<" ","?","!","."," ">>, <<"A","c","m","e"," ","L","t","d"," ","m","a","y"," ","a","g","r","e","e","."," ","a","u","t","o","-","r","e","n","e","w","a","l">>}

\* what a page gives: its text ('' for a page without text) or an exception
PageTexts == {<<>>, <<"C","l","a","u","s","e"," ","1"," ","P","a","y","m","e","n","t">>}
PageOutcomes == {[ok |-> FALSE, text |-> <<>>]} \cup {[ok |-> TRUE, text |-> t] : t \in PageTexts}

\* what a PDF decoder does with a file: it fails to open it, or opens it and
\* reads its pages
MaxPages == 2
PdfOutcomes ==
    {[opens |-> FALSE, pages |-> <<>>]} \cup
    {[opens |-> TRUE, pages |-> ps] : ps \in UNION {[1..n -> PageOutcomes] : n \in 0..MaxPages}}
PdfFiles == {[type |-> "pdf", pdfplumber |-> a, pypdf2 |-> b] : a, b \in PdfOutcomes}

\* what python-docx does with a file: an exception, or the paragraphs
MaxParagraphs == 2
ParagraphTexts == {<<>>, <<" ">>, <<"C","l","a","u","s","e"," ","1"," ","P","a","y","m","e","n","t">>}
DocxOutcomes ==
    {[ok |-> FALSE, paragraphs |-> <<>>]} \cup
    {[ok |-> TRUE, paragraphs |-> ps] :
        ps \in UNION {[1..n -> ParagraphTexts] : n \in 0..MaxParagraphs}}
DocxFiles == {[type |-> "docx", document |-> d] : d \in DocxOutcomes}

\* what reading the file in one encoding gives: an exception, or the text
ReadOutcomes == {[ok |-> FALSE, text |-> <<>>]} \cup {[ok |-> TRUE, text |-> t] : t \in PageTexts}
\* the declared types that are neither pdf nor docx
TextTypes == {"txt", "doc", "PDF"}
TxtFiles == {[type |-> ty, utf8 |-> u, latin1 |-> l] : ty \in TextTypes, u, l \in ReadOutcomes}

Files == PdfFiles \cup DocxFiles \cup TxtFiles


\* the uploads of a session: a PDF only PyPDF2 can read, a Word file, a text
\* file that is not valid utf-8
NoPdf == [opens |-> FALSE, pages |-> <<>>]
NoDocx == [ok |-> FALSE, paragraphs |-> <<>>]
NoRead == [ok |-> FALSE, text |-> <<>>]
Uploads == {
    [name |-> <<"a",".","p","d","f">>, pdfplumber |-> NoPdf,
     pypdf2 |-> [opens |-> TRUE, pages |-> <<[ok |-> TRUE, text |-> <<"C","l","a","u","s","e"," ","1"," ","P","a","y","m","e","n","t">>]>>],
     document |-> NoDocx, utf8 |-> NoRead, latin1 |-> [ok |-> TRUE, text |-> <<"%","P","D","F">>]],
    [name |-> <<"b",".","v","2",".","d","o","c","x">>, pdfplumber |-> NoPdf, pypdf2 |-> NoPdf,
     document |-> [ok |-> TRUE, paragraphs |-> <<<<"M","a","y"," ","a","g","r","e","e",".">>>>],
     utf8 |-> NoRead, latin1 |-> [ok |-> TRUE, text |-> <<"P","K">>]],
    [name |-> <<"c",".","t","x","t">>, pdfplumber |-> NoPdf, pypdf2 |-> NoPdf, document |-> NoDocx,
     utf8 |-> NoRead, latin1 |-> [ok |-> TRUE, text |-> <<"A","c","m","e"," ","L","t","d">>]] }

\* -------------------------------------------------------- specifications

\* any sequence of calls on the shared engine instances
Init == text = <<>> /\ InitEngines /\ InitParsing /\ InitSession
Next ==
    \E t \in CallTexts :
        \/ ExtractEntities(t)
        \/ ClassifyClauses(t)
        \/ DetectAmbiguousTerms(t)
        \/ AnalyzeContract(t)
        \/ CheckIndianCompliance(t)
Spec == Init /\ [][Next]_vars

\* the clause classifier and the ambiguity detector on one text
InitNLP == text \in NLPTexts /\ InitEngines /\ InitParsing /\ InitSession
NextNLP == ClassifyClauses(text) \/ DetectAmbiguousTerms(text)
SpecNLP == InitNLP /\ [][NextNLP]_vars

\* the entity extractor on one text
InitEntities == text \in EntityTexts /\ InitEngines /\ InitParsing /\ InitSession
NextEntities == ExtractEntities(text)
SpecEntities == InitEntities /\ [][NextEntities]_vars

\* the risk scorer on one text
InitRisk == text \in RiskTexts /\ InitEngines /\ InitParsing /\ InitSession
NextRisk == AnalyzeContract(text)
SpecRisk == InitRisk /\ [][NextRisk]_vars

\* the compliance checker on one text
InitCompliance == text \in ComplianceTexts /\ InitEngines /\ InitParsing /\ InitSession
NextCompliance == CheckIndianCompliance(text)
SpecCompliance == InitCompliance /\ [][NextCompliance]_vars

\* parse_document on one uploaded file
InitParser == text = <<>> /\ InitEngines /\ InitSession /\ \E f \in Files : ParserAt(f, "start")
NextParser ==
    \/ ParseDocument
    \/ Pdfplumber
    \/ PyPDF2
    \/ PdfReturn
    \/ ParseDocx
    \/ ReadUtf8
    \/ ReadLatin1
    \/ TxtReturn
SpecParser == InitParser /\ [][NextParser]_vars

\* a session: uploads and clicks on 'Start Analysis'
InitSessionRuns == text = <<>> /\ InitEngines /\ InitParsing /\ InitSession
NextSession ==
    \/ \E u \in Uploads \cup {NoUpload} : Upload(u)
    \/ \E written \in BOOLEAN : StartAnalysis(written)
    \/ NextParser
    \/ Analyze
    \/ Store
    \/ MarkDone
    \/ \E removed \in BOOLEAN : Cleanup(removed)
    \/ Display
SpecSession == InitSessionRuns /\ [][NextSession]_vars

\* ------------------------------------------------------------ properties

\* the weighted count of the findings of a report
WeightedCount(r) == 10 * Len(r.high) + 5 * Len(r.medium) + 1 * Len(r.low)

\* C1: the composite score of every report equals
\* min(100, 10*|high| + 5*|medium| + 1*|low|) of the same report and lies in 0..100
C1_CompositeScore ==
    report.called =>
        /\ report.out.composite_score =
              (IF WeightedCount(report.out) > 100 THEN 100 ELSE WeightedCount(report.out))
        /\ report.out.composite_score \in 0..100

\* a report whose weighted count exceeds 100, with findings in all three tiers
C1_Witness ==
    /\ report.called
    /\ WeightedCount(report.out) > 100
    /\ report.out.medium # <<>>
    /\ report.out.low # <<>>

\* C2: level and recommendation follow the composite score with strict
\* thresholds: above 60 HIGH RISK, above 30 up to 60 MEDIUM RISK, up to 30 LOW
\* RISK; so 61 is HIGH, 60 and 31 are MEDIUM, 30 is LOW
C2_LevelThresholds ==
    report.called =>
        LET r == report.out IN
        /\ r.composite_score > 60 =>
              r.level = "HIGH RISK" /\ r.recommendation = "Immediate legal review recommended"
        /\ (r.composite_score > 30 /\ r.composite_score <= 60) =>
              r.level = "MEDIUM RISK" /\ r.recommendation = "Review and negotiate key clauses"
        /\ r.composite_score <= 30 =>
              r.level = "LOW RISK" /\ r.recommendation = "Standard contract with minor concerns"
        /\ r.composite_score = 61 => r.level = "HIGH RISK"
        /\ r.composite_score \in {60, 31} => r.level = "MEDIUM RISK"
        /\ r.composite_score = 30 => r.level = "LOW RISK"

\* a report with the boundary score 60
C2_Witness == report.called /\ report.out.composite_score = 60

\* the other boundary scores of C2
C2_Reach61 == report.called /\ report.out.composite_score = 61
C2_Reach31 == report.called /\ report.out.composite_score = 31
C2_Reach30 == report.called /\ report.out.composite_score = 30

\* x is an element of the list xs
In(x, xs) == \E i \in 1..Len(xs) : xs[i] = x

\* the lower-cased sentence contains one of the markers
HasMarker(markers, sent) == \E i \in 1..Len(markers) : Contains(Lower(sent), markers[i])

\* C3: every sentence fragment is in at most one class, the first that
\* matches in the order prohibition, obligation, right; a fragment with a
\* prohibition and an obligation marker is in prohibitions only; a fragment
\* with no marker is in no class
C3_FirstMatchWins ==
    classified.called =>
        \A i \in 1..Len(classified.sentences) :
            LET x == classified.sentences[i]
                p == HasMarker(ProhibitionMarkers, x)
                o == HasMarker(ObligationMarkers, x)
                r == HasMarker(RightMarkers, x)
            IN /\ In(x, classified.out.prohibitions) <=> p
               /\ In(x, classified.out.obligations) <=> (~p /\ o)
               /\ In(x, classified.out.rights) <=> (~p /\ ~o /\ r)
               /\ Cardinality({c \in DOMAIN classified.out : In(x, classified.out[c])}) <= 1

\* a text with a fragment that has a prohibition and an obligation marker
\* and a fragment with no marker
C3_Witness ==
    /\ classified.called
    /\ \E i \in 1..Len(classified.sentences) :
          /\ HasMarker(ProhibitionMarkers, classified.sentences[i])
          /\ HasMarker(ObligationMarkers, classified.sentences[i])
    /\ \E i \in 1..Len(classified.sentences) :
          /\ ~HasMarker(ProhibitionMarkers, classified.sentences[i])
          /\ ~HasMarker(ObligationMarkers, classified.sentences[i])
          /\ ~HasMarker(RightMarkers, classified.sentences[i])

\* a text with a fragment that has a right marker only
C3_RightOnly == classified.called /\ classified.out.rights # <<>>

Sentence1 == <<"P","a","r","t","y"," ","A"," ","s","h","a","l","l"," ","p","a","y"," ","R","s","."," ","5","0",",","0","0","0"," ","w","i","t","h","i","n"," ","3","0"," ","d","a","y","s">>
Sentence2 == <<"P","a","r","t","y"," ","A"," ","s","h","a","l","l"," ","n","o","t"," ","d","i","s","c","l","o","s","e"," ","c","o","n","f","i","d","e","n","t","i","a","l"," ","i","n","f","o","r","m","a","t","i","o","n">>
\* sentence 1 up to the period of "Rs."
Sentence1Head == <<"P","a","r","t","y"," ","A"," ","s","h","a","l","l"," ","p","a","y"," ","R","s">>

\* C4 as stated: for the scenario text obligations contains sentence 1 and
\* prohibitions contains sentence 2
C4_AsStated ==
    (classified.called /\ classified.input = ScenarioText) =>
        /\ In(Sentence1, classified.out.obligations)
        /\ In(Sentence2, classified.out.prohibitions)

\* C4 amended: for the scenario text obligations contains the fragment
\* "Party A shall pay Rs" of sentence 1, which is split at the period of
\* "Rs.", and not sentence 1; prohibitions contains sentence 2
C4_ScenarioClauses ==
    (classified.called /\ classified.input = ScenarioText) =>
        /\ In(Sentence1Head, classified.out.obligations)
        /\ ~In(Sentence1, classified.out.obligations)
        /\ In(Sentence2, classified.out.prohibitions)

\* the scenario text has been classified
C4_Witness == classified.called /\ classified.input = ScenarioText

\* C5: for the scenario text the amount set holds a value with the currency
\* marker and the number ("Rs. 50,000") and the duration set a value with the
\* number and the unit ("30 days")
C5_ScenarioEntities ==
    (entities.called /\ entities.input = ScenarioText) =>
        /\ \E v \in entities.out.custom.amount :
              Contains(v, <<"R","s">>) /\ Contains(v, <<"5","0",",","0","0","0">>)
        /\ \E v \in entities.out.custom.duration :
              Contains(v, <<"3","0">>) /\ Contains(v, <<"d","a","y","s">>)

\* C6: on the empty string, and on a text without sentence fragments, every
\* component returns a well-formed empty result: every entity category
\* present and empty, the three classes empty, no flag, a report with empty
\* lists, score 0 and LOW RISK
C6_EmptyInput ==
    /\ (entities.called /\ entities.input = <<>>) =>
          /\ DOMAIN entities.out =
                {"organizations", "persons", "dates", "money", "locations", "custom"}
          /\ entities.out.organizations = {}
          /\ DOMAIN entities.out.custom = {"party", "amount", "date", "duration"}
          /\ \A ty \in DOMAIN entities.out.custom : entities.out.custom[ty] = {}
    /\ (classified.called /\ classified.sentences = <<>>) =>
          /\ DOMAIN classified.out = {"obligations", "rights", "prohibitions"}
          /\ \A c \in DOMAIN classified.out : classified.out[c] = <<>>
    /\ (flagged.called /\ flagged.sentences = <<>>) => flagged.out = <<>>
    /\ (report.called /\ report.input = <<>>) =>
          /\ report.out.high = <<>> /\ report.out.medium = <<>> /\ report.out.low = <<>>
          /\ report.out.composite_score = 0
          /\ report.out.level = "LOW RISK"

\* the four components have run on the empty string
C6_Witness ==
    /\ entities.called /\ entities.input = <<>>
    /\ classified.called /\ classified.input = <<>>
    /\ flagged.called /\ flagged.input = <<>>
    /\ report.called /\ report.input = <<>>

\* C7: four entries, for consideration, free_consent, competent_parties,
\* lawful_object in this order; an entry is MISSING with severity high and a
\* non-empty note exactly when its pattern has no match, and else PRESENT
\* with severity none and no note
C7_ComplianceEntries ==
    compliance.called =>
        /\ Len(compliance.out) = 4
        /\ [i \in 1..4 |-> compliance.out[i].element] =
              <<"consideration", "free_consent", "competent_parties", "lawful_object">>
        /\ \A i \in 1..4 :
              IF Search(essential_elements[i].pattern, compliance.input) = NoMatch
              THEN /\ compliance.out[i].status = "MISSING"
                   /\ compliance.out[i].severity = "high"
                   /\ "note" \in DOMAIN compliance.out[i]
                   /\ compliance.out[i].note # ""
              ELSE /\ compliance.out[i].status = "PRESENT"
                   /\ compliance.out[i].severity = "none"
                   /\ "note" \notin DOMAIN compliance.out[i]

\* a text with present and with missing elements
C7_Witness ==
    /\ compliance.called
    /\ compliance.out[1].status = "PRESENT"
    /\ compliance.out[2].status = "MISSING"
    /\ compliance.out[3].status = "PRESENT"
    /\ compliance.out[4].status = "MISSING"

\* a text without any of the four elements
C7_AllMissing ==
    compliance.called /\ \A i \in 1..4 : compliance.out[i].status = "MISSING"

RECURSIVE EmbedsFrom(_, _, _, _)
\* the fragments frs[i..] are found in t from offset from on, one after the
\* other without overlap
EmbedsFrom(frs, i, t, from) ==
    IF i > Len(frs) THEN TRUE
    ELSE \E p \in from..(Len(t) - Len(frs[i])) :
            /\ Slice(t, p, p + Len(frs[i])) = frs[i]
            /\ EmbedsFrom(frs, i + 1, t, p + Len(frs[i]))

WellFormedFragments(frs, t) ==
    /\ \A i \in 1..Len(frs) :
          /\ frs[i] # <<>>
          /\ frs[i][1] \notin Whitespace
          /\ frs[i][Len(frs[i])] \notin Whitespace
          /\ \A j \in 1..Len(frs[i]) : frs[i][j] \notin {".", "!", "?"}
    /\ EmbedsFrom(frs, 1, t, 0)

\* C8: the fragments of the sentence splitting are non-empty, have no
\* leading or trailing whitespace, hold no '.', '!' or '?', and lie in
\* disjoint regions of the text in the order of the text
C8_Fragments ==
    /\ classified.called => WellFormedFragments(classified.sentences, classified.input)
    /\ flagged.called => WellFormedFragments(flagged.sentences, flagged.input)

\* a text that starts with whitespace and splits into several fragments
C8_Witness ==
    /\ classified.called
    /\ Len(classified.sentences) >= 2
    /\ classified.input[1] \in Whitespace
    /\ flagged.called

HasVague(sent) == \E i \in 1..Len(ambiguous_terms) : Contains(Lower(sent), ambiguous_terms[i])

\* C10: one flag per sentence fragment with a vague term, none for the
\* others, in the order of the text, repeated sentences flagged each; the
\* terms of a flag are the vague terms that occur in the fragment, each once,
\* and the concern is the fixed string
C10_Flags ==
    flagged.called =>
        LET hits == SelectSeq(flagged.sentences, HasVague) IN
        /\ Len(flagged.out) = Len(hits)
        /\ \A i \in 1..Len(hits) :
              /\ flagged.out[i].sentence = hits[i]
              /\ Range(flagged.out[i].terms) =
                    {term \in Range(ambiguous_terms) : Contains(Lower(hits[i]), term)}
              /\ Cardinality(Range(flagged.out[i].terms)) = Len(flagged.out[i].terms)
              /\ flagged.out[i].concern = "Vague language may lead to disputes"

\* a text with a sentence flagged twice, a flag with two terms and a
\* sentence without a flag
C10_Witness ==
    /\ flagged.called
    /\ Len(flagged.out) >= 2
    /\ flagged.out[1].sentence = flagged.out[2].sentence
    /\ Len(flagged.out[1].terms) >= 2

\* a text with a sentence that is not flagged beside one that is
C10_Unflagged ==
    flagged.called /\ flagged.out # <<>> /\ Len(flagged.sentences) > Len(flagged.out)

\* the categories the catalog declares for a severity tier
CategoriesOf(level) == (CHOOSE tier \in Range(RiskPatterns) : tier.level = level).categories

\* the non-overlapping matches of every pattern of a tier, by category and pattern
TierMatches(level, t) ==
    [c \in 1..Len(CategoriesOf(level)) |->
       [p \in 1..Len(CategoriesOf(level)[c].patterns) |->
          FindIter(CategoriesOf(level)[c].patterns[p], t)]]

\* the (category, pattern, match) triples of the matches ms
TriplesOf(ms) ==
    UNION {UNION {{<<c, p, j>> : j \in 1..Len(ms[c][p])} : p \in 1..Len(ms[c])} :
           c \in 1..Len(ms)}

\* declaration order of categories, then of patterns, then match order
Before(d, e) ==
    \/ d[1] < e[1]
    \/ d[1] = e[1] /\ d[2] < e[2]
    \/ d[1] = e[1] /\ d[2] = e[2] /\ d[3] < e[3]

\* the list holds one finding per triple, the k-th for the k-th triple
FindingsPerMatch(list, level, ms, t) ==
    /\ Len(list) = Cardinality(TriplesOf(ms))
    /\ \A e \in TriplesOf(ms) :
          LET k == 1 + Cardinality({d \in TriplesOf(ms) : Before(d, e)})
              m == ms[e[1]][e[2]][e[3]]
          IN /\ list[k].category = CategoriesOf(level)[e[1]].category
             /\ list[k].position = m.start
             /\ 0 <= list[k].position /\ list[k].position <= Len(t)
             /\ list[k].matched_text = Slice(t, m.start, m.end)
             /\ list[k].context =
                   Slice(t, IF m.start - 50 > 0 THEN m.start - 50 ELSE 0,
                            IF m.end + 50 < Len(t) THEN m.end + 50 ELSE Len(t))
             /\ Contains(list[k].context, list[k].matched_text)

\* C11: each tier's list of a report holds one finding per (category,
\* pattern, non-overlapping match) of the tier, in the declaration order of
\* categories and patterns and then in match order, without deduplication;
\* no finding of a tier is in another tier's list; position is the match
\* start, within 0..len(text), and context is
\* text[max(0, start-50) : min(len(text), end+50)] and contains matched_text
C11_Findings ==
    report.called =>
        \A level \in {"high", "medium", "low"} :
            /\ FindingsPerMatch(report.out[level], level,
                                TierMatches(level, report.input), report.input)
            /\ \A other \in {"high", "medium", "low"} \ {level} :
                  \A i \in 1..Len(report.out[level]) :
                      ~In(report.out[level][i], report.out[other])

\* a report whose high list is not in the order of the text
C11_Witness ==
    /\ report.called
    /\ \E i, j \in 1..Len(report.out.high) :
          i < j /\ report.out.high[i].position > report.out.high[j].position

\* a report with two findings of the same category and matched text
C11_Repeated ==
    /\ report.called
    /\ \E i, j \in 1..Len(report.out.high) :
          /\ i < j
          /\ report.out.high[i].category = report.out.high[j].category
          /\ report.out.high[i].matched_text = report.out.high[j].matched_text

\* a report with a context window of 50 characters on both sides
C11_FullWindow ==
    /\ report.called
    /\ \E i \in 1..Len(report.out.high) :
          Len(report.out.high[i].context) = Len(report.out.high[i].matched_text) + 100

\* a report with a context window cut at both ends of the text
C11_CutWindow ==
    /\ report.called
    /\ \E i \in 1..Len(report.out.high) :
          /\ report.out.high[i].position > 0
          /\ report.out.high[i].context = report.input

\* a PDF decoder raises on the file
Raises(o) == ~o.opens \/ \E i \in 1..Len(o.pages) : ~o.pages[i].ok

\* every decoding attempt of the file's format fails
AllFail(f) ==
    IF f.type = "pdf" THEN Raises(f.pdfplumber) /\ Raises(f.pypdf2)
    ELSE IF f.type = "docx" THEN ~f.document.ok
    ELSE ~f.utf8.ok /\ ~f.latin1.ok

\* C12: parse_document never raises, whatever the file and the declared
\* type (anything but pdf and docx is read as text); it always returns a
\* record with a raw_text string, and when every decoding attempt of the
\* format fails, raw_text is the format's placeholder and metadata holds
\* the error
C12_NeverRaises ==
    /\ pc \in {"start", "pdfplumber", "pypdf2", "pdf_return", "docx", "utf8",
               "latin1", "txt_return", "done"}
    /\ pc = "done" =>
          /\ DOMAIN parsed = {"raw_text", "sections", "metadata"}
          /\ DOMAIN parsed.raw_text = 1..Len(parsed.raw_text)
          /\ AllFail(file) =>
                /\ parsed.raw_text =
                      (IF file.type = "pdf" THEN <<"C","o","u","l","d"," ","n","o","t"," ","e","x","t","r","a","c","t"," ","t","e","x","t"," ","f","r","o","m"," ","P","D","F">>
                       ELSE IF file.type = "docx" THEN <<"E","r","r","o","r"," ","r","e","a","d","i","n","g"," ","W","o","r","d"," ","d","o","c","u","m","e","n","t">>
                       ELSE <<"E","r","r","o","r"," ","r","e","a","d","i","n","g"," ","t","e","x","t"," ","f","i","l","e">>)
                /\ "error" \in DOMAIN parsed.metadata

\* a PDF both decoders fail on, the first after it has read a page
C12_Witness ==
    /\ pc = "done"
    /\ file.type = "pdf"
    /\ AllFail(file)
    /\ file.pdfplumber.opens /\ Len(file.pdfplumber.pages) = 2
    /\ file.pdfplumber.pages[1].ok /\ file.pdfplumber.pages[1].text # <<>>

\* a Word file and a file of another type that cannot be read
C12_DocxFails == pc = "done" /\ file.type = "docx" /\ AllFail(file)
C12_OtherFails == pc = "done" /\ file.type = "PDF" /\ AllFail(file)

\* the text a PDF decoder produces alone when it does not raise
TextAlone(o) == PagesText(o.pages, Len(o.pages))

\* the text returned for an extracted text
Returned(t) == IF Strip(t) = <<>> THEN <<"N","o"," ","t","e","x","t"," ","e","x","t","r","a","c","t","e","d"," ","f","r","o","m"," ","P","D","F">> ELSE t

\* C13: for a PDF, pdfplumber is tried first and PyPDF2 only if pdfplumber
\* raised; raw_text is the text the first decoder that succeeds produces
\* alone, without text of a decoder that failed partway, and the placeholder
\* only when both fail
C13_FirstSuccessWins ==
    (pc = "done" /\ file.type = "pdf") =>
        /\ tried = (IF Raises(file.pdfplumber) THEN <<"pdfplumber", "PyPDF2">>
                    ELSE <<"pdfplumber">>)
        /\ ~Raises(file.pdfplumber) =>
              parsed.raw_text = Returned(TextAlone(file.pdfplumber))
        /\ (Raises(file.pdfplumber) /\ ~Raises(file.pypdf2)) =>
              parsed.raw_text = Returned(TextAlone(file.pypdf2))
        /\ (Raises(file.pdfplumber) /\ Raises(file.pypdf2)) =>
              parsed.raw_text = <<"C","o","u","l","d"," ","n","o","t"," ","e","x","t","r","a","c","t"," ","t","e","x","t"," ","f","r","o","m"," ","P","D","F">>

\* what holds of the code: the order of the decoders, the text of the first
\* decoder when it succeeds, and the placeholder when both fail
C13_OrderOnly ==
    (pc = "done" /\ file.type = "pdf") =>
        /\ tried = (IF Raises(file.pdfplumber) THEN <<"pdfplumber", "PyPDF2">>
                    ELSE <<"pdfplumber">>)
        /\ ~Raises(file.pdfplumber) =>
              parsed.raw_text = Returned(TextAlone(file.pdfplumber))
        /\ (Raises(file.pdfplumber) /\ Raises(file.pypdf2)) =>
              parsed.raw_text = <<"C","o","u","l","d"," ","n","o","t"," ","e","x","t","r","a","c","t"," ","t","e","x","t"," ","f","r","o","m"," ","P","D","F">>

\* a complete result record, all of whose parts come from the same parsed text
CompleteResult(d) ==
    /\ d # None
    /\ DOMAIN d = {"parsed", "entities", "classified", "ambiguous", "risks", "compliance",
                   "contract_type", "summary", "filename", "timestamp"}
    /\ d.entities = extract_entities(LegalPatterns, d.parsed.raw_text)
    /\ d.classified = classify_clauses(ObligationMarkers, RightMarkers, ProhibitionMarkers,
                                       d.parsed.raw_text).out
    /\ d.ambiguous = detect_ambiguous_terms(d.parsed.raw_text).out
    /\ d.risks = analyze_contract(RiskPatterns, d.parsed.raw_text)
    /\ d.compliance = check_indian_compliance(d.parsed.raw_text, "general")

\* the script run of the last click has raised and has come to its end
RunRaised == error # "" /\ hpc \in {"display", "idle"}

\* analysis_done is true only with a complete result of one run, and results
\* are rendered only while analysis_done is true
C14_DoneImpliesResult ==
    /\ analysis_done => CompleteResult(contract_data)
    /\ rendered # None => analysis_done
    /\ (rendered # None /\ hpc = "idle") => rendered = contract_data

\* C14: analysis_done is true only if contract_data holds a complete result
\* record of one single run; a run that raises changes neither analysis_done
\* nor contract_data, so that the result stored before stays the one
\* displayed; results are rendered only while analysis_done is true
C14_SessionState ==
    /\ C14_DoneImpliesResult
    /\ RunRaised =>
          /\ analysis_done = entry.analysis_done
          /\ contract_data = entry.contract_data
    /\ (RunRaised /\ hpc = "idle") =>
          rendered = Shown(entry.analysis_done, entry.contract_data)

\* a run that raises before the result is stored changes nothing
C14_EarlyRaise ==
    (RunRaised /\ error = ErrorOf("open")) =>
        /\ analysis_done = entry.analysis_done
        /\ contract_data = entry.contract_data

\* a second analysis has replaced the result of the first although it raised
C14_Replaced ==
    /\ RunRaised
    /\ entry.analysis_done
    /\ contract_data # entry.contract_data

====
